---- MODULE Spec2Model ----
(***************************************************************************)
(* Model of pro200/go-storage: the storage handle built by NewStorage      *)
(* (src/storage.go) and by New (src/unnamed/part_000), and the operations  *)
(* on it.  Strings the code inspects (endpoints, upload sources) are       *)
(* sequences of one-character strings, so that strings.HasPrefix,          *)
(* strings.Contains and strings.Split are computed as the code computes    *)
(* them.  The object store, the file system and the HTTP transport are     *)
(* external: every outcome they can produce is a nondeterministic choice.  *)
(***************************************************************************)
EXTENDS Integers, Sequences, FiniteSets, TLC

VARIABLES
    s,       \* the *Storage handle the operations run on, or NoStorage
    made,    \* the last constructor call: its input and everything it produced
    bucket,  \* the destination bucket: objects in the provider's key order
    last,    \* the last operation on the handle: arguments, outcome, what it saw
    calls,   \* the external calls issued during the last operation, in order
    iter     \* a caller-driven List pagination in progress

vars == <<s, made, bucket, last, calls, iter>>

----------------------------------------------------------------------------
(* String literals of the source, as character sequences *)

SchemeHTTP == <<"h", "t", "t", "p", ":", "/", "/">>
SchemeHTTPS == <<"h", "t", "t", "p", "s", ":", "/", "/">>
MarkR2 == <<"c", "l", "o", "u", "d", "f", "l", "a", "r", "e", "s", "t", "o", "r", "a", "g", "e">>
MarkB2 == <<"b", "a", "c", "k", "b", "l", "a", "z", "e", "b", "2">>
MarkBunny == <<"b", "u", "n", "n", "y", "c", "d", "n">>
RegionAuto == <<"a", "u", "t", "o">>
Dot == "."

(* strings.HasPrefix *)
HasPrefix(str, prefix) ==
    /\ Len(str) >= Len(prefix)
    /\ SubSeq(str, 1, Len(prefix)) = prefix

(* strings.Contains *)
Contains(str, substr) ==
    \E i \in 1..(Len(str) - Len(substr) + 1) :
        SubSeq(str, i, i + Len(substr) - 1) = substr

(* strings.Split(str, sep) for a one-character sep: the segments between the
   separators, always at least one segment *)
RECURSIVE SplitFrom(_, _, _, _)
SplitFrom(str, sep, i, cur) ==
    IF i > Len(str) THEN <<cur>>
    ELSE IF str[i] = sep THEN <<cur>> \o SplitFrom(str, sep, i + 1, <<>>)
    ELSE SplitFrom(str, sep, i + 1, Append(cur, str[i]))

Split(str, sep) == SplitFrom(str, sep, 1, <<>>)

----------------------------------------------------------------------------
(* Construction *)

NoStorage == [kind |-> "none"]

Config(endpoint, region) == [Endpoint |-> endpoint, Region |-> region]

(* a slip of the scheme test: only https:// counts as a scheme *)
NormalizeEndpointHTTPSOnly(endpoint) ==
    IF ~HasPrefix(endpoint, SchemeHTTPS)
    THEN SchemeHTTPS \o endpoint
    ELSE endpoint

(* the first step of both constructors: prepend https:// unless the endpoint
   starts with http:// or https:// *)
NormalizeEndpoint(endpoint) ==
    IF ~HasPrefix(endpoint, SchemeHTTP) /\ ~HasPrefix(endpoint, SchemeHTTPS)
    THEN SchemeHTTPS \o endpoint
    ELSE endpoint

(* the region steps of both constructors, on the normalized endpoint.
   parts[1] of a one-element slice is an index-out-of-range panic. *)
ResolveRegion(endpoint, region) ==
    LET extract == region = <<>> /\ Contains(endpoint, MarkB2)
        parts == Split(endpoint, Dot)
    IN  IF extract /\ Len(parts) < 2 THEN [panic |-> TRUE, Region |-> region]
        ELSE LET r == IF extract THEN parts[2] ELSE region
             IN  [panic |-> FALSE, Region |-> IF r = <<>> THEN RegionAuto ELSE r]

(* the outcome of a constructor: status "ok" returns the handle (config,
   client, presignClient); "error" and "panic" return none, and config is the
   local configuration as it stood when the constructor was left *)
Outcome(status, fn, config, hasClient) ==
    [status |-> status, fn |-> fn, config |-> config,
     client |-> hasClient, presignClient |-> hasClient]

(* the steps New and NewStorage share: empty endpoint, scheme, region *)
Prepare(fn, config) ==
    IF config.Endpoint = <<>> THEN Outcome("error", fn, config, FALSE)
    ELSE LET ep == NormalizeEndpoint(config.Endpoint)
             rg == ResolveRegion(ep, config.Region)
         IN  IF rg.panic THEN Outcome("panic", fn, Config(ep, config.Region), FALSE)
             ELSE Outcome("ready", fn, Config(ep, rg.Region), FALSE)

(* NewStorage of src/storage.go; loadErr is whether LoadDefaultConfig fails *)
NewStorage(config, loadErr) ==
    LET p == Prepare("NewStorage", config)
    IN  IF p.status # "ready" THEN p
        ELSE IF Contains(p.config.Endpoint, MarkBunny)
             THEN Outcome("ok", "NewStorage", p.config, FALSE)
        ELSE IF loadErr THEN Outcome("error", "NewStorage", p.config, FALSE)
        ELSE Outcome("ok", "NewStorage", p.config, TRUE)

(* New of src/unnamed/part_000: no CDN branch, the client is always built *)
New(config, loadErr) ==
    LET p == Prepare("New", config)
    IN  IF p.status # "ready" THEN p
        ELSE IF loadErr THEN Outcome("error", "New", p.config, FALSE)
        ELSE Outcome("ok", "New", p.config, TRUE)

Handle(out) ==
    IF out.status = "ok"
    THEN [kind |-> "storage", fn |-> out.fn, config |-> out.config,
          client |-> out.client, presignClient |-> out.presignClient]
    ELSE NoStorage

----------------------------------------------------------------------------
(* Inputs of the construction specification *)

MaxSegs == 3

Labels == {<<>>, <<"s", "3">>, <<"e", "u">>, MarkB2, MarkBunny}

RECURSIVE Join(_)
Join(segs) ==
    IF Len(segs) = 1 THEN segs[1]
    ELSE segs[1] \o <<Dot>> \o Join(Tail(segs))

Hosts == { Join(segs) : segs \in UNION { [1..n -> Labels] : n \in 1..MaxSegs } }

Schemes == {<<>>, SchemeHTTP, SchemeHTTPS, <<"h", "t", "t", "p", "s", ":", "/">>}

RawEndpoints == { sch \o h : sch \in Schemes, h \in Hosts }

RawRegions == {<<>>, <<"u", "s">>}

NoCall == [fn |-> "none"]

InitIdle ==
    /\ bucket = <<>>
    /\ last = [op |-> "none"]
    /\ calls = <<>>
    /\ iter = [state |-> "idle"]

InitNew ==
    /\ s = NoStorage
    /\ made = NoCall
    /\ InitIdle

(* one handle is studied: the constructor runs once, on any input *)
CallNewStorage ==
    /\ made = NoCall
    /\ \E ep \in RawEndpoints, rg \in RawRegions, loadErr \in BOOLEAN :
        LET out == NewStorage(Config(ep, rg), loadErr)
        IN  /\ made' = [fn |-> "NewStorage", raw |-> Config(ep, rg), out |-> out]
            /\ s' = Handle(out)
            /\ UNCHANGED <<bucket, last, calls, iter>>

CallNew ==
    /\ made = NoCall
    /\ \E ep \in RawEndpoints, rg \in RawRegions, loadErr \in BOOLEAN :
        LET out == New(Config(ep, rg), loadErr)
        IN  /\ made' = [fn |-> "New", raw |-> Config(ep, rg), out |-> out]
            /\ s' = Handle(out)
            /\ UNCHANGED <<bucket, last, calls, iter>>

NextNew == CallNewStorage \/ CallNew

SpecNew == InitNew /\ [][NextNew]_vars

----------------------------------------------------------------------------
(* The provider variant *)

r2 == "r2"
backblaze == "backblazeb2"
bunnyCDN == "bunnycdn"
etc == "etc"

(* a slip of the classifier: the CDN marker is never recognised *)
TypeNoCDN(h) ==
    IF Contains(h.config.Endpoint, MarkR2) THEN r2
    ELSE IF Contains(h.config.Endpoint, MarkB2) THEN backblaze
    ELSE etc

(* Storage.Type: first match of cloudflarestorage, backblazeb2, bunnycdn.
   Handles built by New (part_000) have no classifier: every operation of
   that file takes the standard-protocol path. *)
Type(h) ==
    IF Contains(h.config.Endpoint, MarkR2) THEN r2
    ELSE IF Contains(h.config.Endpoint, MarkB2) THEN backblaze
    ELSE IF Contains(h.config.Endpoint, MarkBunny) THEN bunnyCDN
    ELSE etc

(* the branch `s.Type() == bunnyCDN` that opens the operations of storage.go *)
IsCDN(h) == h.fn = "NewStorage" /\ Type(h) = bunnyCDN

----------------------------------------------------------------------------
(* The destination bucket behind the protocol client and the CDN endpoint.
   A key is a two-symbol string <<directory, name>> over an ordered alphabet
   of numbers; a prefix is <<>> or <<directory>>.  The bucket is the sequence
   of its objects in the provider's (lexicographic) key order. *)

KeyLess(k1, k2) == k1[1] < k2[1] \/ (k1[1] = k2[1] /\ k1[2] < k2[2])

Object(key, size) == [key |-> key, size |-> size]

(* a completed PUT: the object replaces any object of that key *)
PutObject(b, key, size) ==
    SelectSeq(b, LAMBDA o : KeyLess(o.key, key))
        \o <<Object(key, size)>>
        \o SelectSeq(b, LAMBDA o : KeyLess(key, o.key))

(* a completed DELETE *)
DeleteObject(b, key) == SelectSeq(b, LAMBDA o : o.key # key)

(* HEAD: the objects of that key (none or one) *)
HeadObject(b, key) == SelectSeq(b, LAMBDA o : o.key = key)

Min(a, b) == IF a < b THEN a ELSE b

(* ListObjectsV2: at most maxKeys keys under the prefix, in key order, from
   the position the continuation token stands for (a token is the number of
   keys already returned; 0 is the empty token).  next is 0 on the last page.
   A negative max-keys is rejected; max-keys 0 gives an empty last page.  The
   provider may return fewer keys than max-keys allows: short drops one key
   from a page of two or more. *)
ListObjectsV2(b, prefix, maxKeys, from, short) ==
    LET under == SelectSeq(b, LAMBDA o : HasPrefix(o.key, prefix))
        full == Min(from + maxKeys, Len(under))
        upto == IF short /\ full - from >= 2 THEN full - 1 ELSE full
    IN  IF maxKeys < 0 THEN [err |-> TRUE, keys |-> <<>>, next |-> 0]
        ELSE [err |-> FALSE,
              keys |-> [i \in 1..(upto - from) |-> under[from + i].key],
              next |-> IF maxKeys > 0 /\ upto < Len(under) THEN upto ELSE 0]

----------------------------------------------------------------------------
(* Upload *)

MaxSize == 2

StatusOK == 200
StatusFail == 300

Sizes == 0..MaxSize

(* os.ReadFile / os.Open+Stat of the source path: an error, or a file *)
FileOutcomes == {[err |-> TRUE, size |-> 0]} \cup {[err |-> FALSE, size |-> n] : n \in Sizes}

(* the GET of a remote source: the request cannot be built (NewRequest's
   error is dropped and the nil request is used), the transport fails, or a
   response with a status and a Content-Length (-1 when unknown) *)
OriginOutcomes ==
    {[kind |-> "badurl", status |-> 0, length |-> 0],
     [kind |-> "doerr", status |-> 0, length |-> 0]}
    \cup {[kind |-> "resp", status |-> st, length |-> n] :
            st \in {StatusOK, 204, 404}, n \in {-1} \cup Sizes}

(* the protocol PUT: a transport error, or completion with the size the
   backend ended up storing *)
PutOutcomes == {[err |-> TRUE, stored |-> 0]} \cup {[err |-> FALSE, stored |-> n] : n \in Sizes}

(* the verification HEAD: a transport error, a result with a ContentLength,
   or a result without one (a nil pointer, dereferenced by the comparison) *)
HeadOutcomes == {"err", "ok", "nolen"}

(* the raw HTTP request to the CDN: it cannot be built, the transport fails,
   or the CDN answers with a status (a PUT answered below 300 stores the
   size the CDN ended up with) *)
CDNOutcomes ==
    {[kind |-> "badurl", status |-> 0, stored |-> 0],
     [kind |-> "doerr", status |-> 0, stored |-> 0]}
    \cup {[kind |-> "resp", status |-> st, stored |-> n] :
            st \in {StatusOK, 201, StatusFail, 404}, n \in Sizes}

(* isRemote of part_000's Upload *)
IsRemote(origin) == HasPrefix(origin, SchemeHTTPS)

(* a slip of the status test: every 2xx status passes *)
OriginAccepted2xx(status) == status >= StatusOK /\ status < StatusFail

(* `resp.StatusCode != http.StatusOK` fails the remote upload *)
OriginAccepted(status) == status = StatusOK

(* a slip of the size test: only a negative size is refused *)
IsZeroSizeNegative(size) == size < 0

(* `size == 0` / `len(file) == 0` *)
IsZeroSize(size) == size = 0

(* a slip of the comparison: a larger stored object passes *)
SizeMismatchShort(size, contentLength) == size > contentLength

(* the source size differs from the ContentLength the HEAD reported *)
SizeMismatch(size, contentLength) == size # contentLength

(* a cleanup of the object that failed verification *)
AfterMismatchCleanup(b, key) == DeleteObject(b, key)

(* the exit after a failed verification: the TODO of the source, nothing is
   deleted and the bucket is left as the PUT made it *)
AfterMismatch(b, key) == b

(* what Upload learned of its source: the mode it took, whether it got as
   far as a size, the size, and the status of the origin's response (0 when
   there was none) *)
Src(mode, sized, size, status) ==
    [mode |-> mode, sized |-> sized, size |-> size, status |-> status]

(* what Upload returned; stored is the ContentLength the verification HEAD
   reported and compared is whether the size comparison was made *)
UploadResult(key, source, src, res, err, stored, compared) ==
    [op |-> "Upload", fn |-> s.fn, key |-> key, source |-> source,
     mode |-> src.mode, sized |-> src.sized, size |-> src.size, status |-> src.status,
     res |-> res, err |-> err, stored |-> stored, compared |-> compared]

Return(result, cs, b) ==
    /\ last' = result
    /\ calls' = cs
    /\ bucket' = b
    /\ UNCHANGED <<s, made, iter>>

(* the tail both Upload functions share: protocol PUT, verification HEAD,
   size comparison.  cs are the calls issued so far. *)
PutAndVerify(key, source, src, cs) ==
    IF ~s.client
    THEN Return(UploadResult(key, source, src, "panic", "nil client", -1, FALSE), cs, bucket)
    ELSE \E put \in PutOutcomes :
        LET cs1 == Append(cs, "s3.PutObject")
            b1 == PutObject(bucket, key, put.stored)
        IN  IF put.err
            THEN Return(UploadResult(key, source, src, "error", "put", -1, FALSE), cs1, bucket)
            ELSE \E head \in HeadOutcomes :
                LET cs2 == Append(cs1, "s3.HeadObject")
                    result == HeadObject(b1, key)[1]
                IN  IF head = "err"
                    THEN Return(UploadResult(key, source, src, "error", "head", -1, FALSE),
                                cs2, b1)
                    ELSE IF head = "nolen"
                    THEN Return(UploadResult(key, source, src, "panic", "nil ContentLength",
                                             -1, FALSE), cs2, b1)
                    ELSE IF SizeMismatch(src.size, result.size)
                    THEN Return(UploadResult(key, source, src, "error", "upload failed",
                                             result.size, TRUE), cs2, AfterMismatch(b1, key))
                    ELSE Return(UploadResult(key, source, src, "ok", "", result.size, TRUE),
                                cs2, b1)

(* the CDN branch of storage.go's Upload: one raw HTTP PUT, no read-back *)
PutCDN(key, source, src, cs) ==
    \E cdn \in CDNOutcomes :
        LET cs1 == Append(cs, "http.PUT")
        IN  IF cdn.kind = "badurl"
            THEN Return(UploadResult(key, source, src, "error", "request", -1, FALSE),
                        cs, bucket)
            ELSE IF cdn.kind = "doerr"
            THEN Return(UploadResult(key, source, src, "error", "put", -1, FALSE), cs1, bucket)
            ELSE IF cdn.status >= StatusFail
            THEN Return(UploadResult(key, source, src, "error", "status", -1, FALSE),
                        cs1, bucket)
            ELSE Return(UploadResult(key, source, src, "ok", "", -1, FALSE),
                        cs1, PutObject(bucket, key, cdn.stored))

Keys == {<<1, 1>>, <<2, 1>>}

(* the keys uploaded to; the other key holds an object from the start *)
UploadKeys == {<<1, 1>>}

SrcHTTPS == SchemeHTTPS \o <<"o">>
SrcHTTP == SchemeHTTP \o <<"o">>
SrcPath == <<"/", "f">>

Sources == {SrcHTTPS, SrcHTTP, SrcPath}

(* the local branch: read the file, refuse an empty one *)
Local(opened, file) ==
    [cs |-> <<opened>>,
     src |-> Src("local", ~file.err, file.size, 0),
     err |-> IF file.err THEN "source"
             ELSE IF IsZeroSize(file.size) THEN "zero size file" ELSE ""]

(* Upload of src/storage.go: the source is always read as a local file *)
Upload ==
    /\ s # NoStorage
    /\ s.fn = "NewStorage"
    /\ \E key \in UploadKeys, path \in Sources, file \in FileOutcomes :
        LET l == Local("os.ReadFile", file)
        IN  IF l.err # ""
            THEN Return(UploadResult(key, path, l.src, "error", l.err, -1, FALSE), l.cs, bucket)
            ELSE IF Type(s) = bunnyCDN
            THEN PutCDN(key, path, l.src, l.cs)
            ELSE PutAndVerify(key, path, l.src, l.cs)

(* Upload of src/unnamed/part_000: a remote source is fetched with a GET, any
   other source is opened as a local file *)
UploadOrigin ==
    /\ s # NoStorage
    /\ s.fn = "New"
    /\ \E key \in UploadKeys, origin \in Sources :
        IF IsRemote(origin)
        THEN \E get \in OriginOutcomes :
            LET cs == <<"http.GET">>
                src == Src("remote", get.kind = "resp" /\ OriginAccepted(get.status),
                           get.length, get.status)
            IN  IF get.kind = "badurl"
                THEN Return(UploadResult(key, origin, src, "panic", "nil request", -1, FALSE),
                            <<>>, bucket)
                ELSE IF get.kind = "doerr"
                THEN Return(UploadResult(key, origin, src, "error", "source", -1, FALSE),
                            cs, bucket)
                ELSE IF ~OriginAccepted(get.status)
                THEN Return(UploadResult(key, origin, src, "error", "origin download failed",
                                         -1, FALSE), cs, bucket)
                ELSE IF IsZeroSize(get.length)
                THEN Return(UploadResult(key, origin, src, "error", "zero size file",
                                         -1, FALSE), cs, bucket)
                ELSE PutAndVerify(key, origin, src, cs)
        ELSE \E file \in FileOutcomes :
            LET l == Local("os.Open", file)
            IN  IF l.err # ""
                THEN Return(UploadResult(key, origin, l.src, "error", l.err, -1, FALSE),
                            l.cs, bucket)
                ELSE PutAndVerify(key, origin, l.src, l.cs)

----------------------------------------------------------------------------
(* The other operations.  In part_000 they are the same functions without the
   CDN branch, which IsCDN never takes for a handle built by New. *)

Result(op, key, res, err) == [op |-> op, fn |-> s.fn, key |-> key, res |-> res, err |-> err]

Unsupported(op, key) == Return(Result(op, key, "error", "unsupported"), <<>>, bucket)

NilClient(op, key, cs) == Return(Result(op, key, "panic", "nil client"), cs, bucket)

Info ==
    /\ s # NoStorage
    /\ \E key \in Keys :
        IF IsCDN(s) THEN Unsupported("Info", key)
        ELSE IF ~s.client THEN NilClient("Info", key, <<>>)
        ELSE \E fails \in BOOLEAN :
            IF fails \/ HeadObject(bucket, key) = <<>>
            THEN Return(Result("Info", key, "error", "head"), <<"s3.HeadObject">>, bucket)
            ELSE Return(Result("Info", key, "ok", ""), <<"s3.HeadObject">>, bucket)

PresignGet ==
    /\ s # NoStorage
    /\ \E key \in Keys :
        IF IsCDN(s) THEN Unsupported("PresignGet", key)
        ELSE IF ~s.presignClient THEN NilClient("PresignGet", key, <<>>)
        ELSE \E fails \in BOOLEAN :
            Return(Result("PresignGet", key, IF fails THEN "error" ELSE "ok",
                          IF fails THEN "presign" ELSE ""),
                   <<"presign.GetObject">>, bucket)

PresignPut ==
    /\ s # NoStorage
    /\ \E key \in Keys :
        IF IsCDN(s) THEN Unsupported("PresignPut", key)
        ELSE IF ~s.presignClient THEN NilClient("PresignPut", key, <<>>)
        ELSE \E fails \in BOOLEAN :
            Return(Result("PresignPut", key, IF fails THEN "error" ELSE "ok",
                          IF fails THEN "presign" ELSE ""),
                   <<"presign.PutObject">>, bucket)

(* Delete: on the CDN the error of NewRequest is dropped and the nil request
   is used *)
Delete ==
    /\ s # NoStorage
    /\ \E key \in Keys :
        IF IsCDN(s)
        THEN \E cdn \in CDNOutcomes :
            IF cdn.kind = "badurl"
            THEN Return(Result("Delete", key, "panic", "nil request"), <<>>, bucket)
            ELSE IF cdn.kind = "doerr"
            THEN Return(Result("Delete", key, "error", "delete"), <<"http.DELETE">>, bucket)
            ELSE IF cdn.status >= StatusFail
            THEN Return(Result("Delete", key, "error", "status"), <<"http.DELETE">>, bucket)
            ELSE Return(Result("Delete", key, "ok", ""), <<"http.DELETE">>,
                        DeleteObject(bucket, key))
        ELSE IF ~s.client THEN NilClient("Delete", key, <<>>)
        ELSE \E fails \in BOOLEAN :
            IF fails
            THEN Return(Result("Delete", key, "error", "delete"), <<"s3.DeleteObject">>, bucket)
            ELSE Return(Result("Delete", key, "ok", ""), <<"s3.DeleteObject">>,
                        DeleteObject(bucket, key))

(* Download: the destination file is created (os.Create) before the protocol
   GET, and after the response on the CDN; a failure leaves it as it is *)
Download ==
    /\ s # NoStorage
    /\ \E key \in Keys, createFails \in BOOLEAN :
        IF IsCDN(s)
        THEN \E cdn \in CDNOutcomes :
            IF cdn.kind = "badurl"
            THEN Return(Result("Download", key, "error", "request"), <<>>, bucket)
            ELSE IF cdn.kind = "doerr"
            THEN Return(Result("Download", key, "error", "get"), <<"http.GET">>, bucket)
            ELSE IF cdn.status # StatusOK \/ HeadObject(bucket, key) = <<>>
            THEN Return(Result("Download", key, "error", "status"), <<"http.GET">>, bucket)
            ELSE IF createFails
            THEN Return(Result("Download", key, "error", "create"),
                        <<"http.GET", "os.Create">>, bucket)
            ELSE \E copyFails \in BOOLEAN :
                Return(Result("Download", key, IF copyFails THEN "error" ELSE "ok",
                              IF copyFails THEN "write" ELSE ""),
                       <<"http.GET", "os.Create", "io.Copy">>, bucket)
        ELSE IF createFails
        THEN Return(Result("Download", key, "error", "create"), <<"os.Create">>, bucket)
        ELSE IF ~s.client THEN NilClient("Download", key, <<"os.Create">>)
        ELSE \E fails \in BOOLEAN :
            IF fails \/ HeadObject(bucket, key) = <<>>
            THEN Return(Result("Download", key, "error", "get"),
                        <<"os.Create", "s3.GetObject">>, bucket)
            ELSE Return(Result("Download", key, "ok", ""),
                        <<"os.Create", "s3.GetObject">>, bucket)


----------------------------------------------------------------------------
(* List *)

MaxKeysLimit == 1000

(* a slip of the clamp: the requested length reaches the backend as given *)
ClampLengthMissing(length) == length

(* `if length > 1000 { length = 1000 }`; the int32 conversion that follows
   changes no value between -2^31 and 1000 *)
ClampLength(length) == IF length > MaxKeysLimit THEN MaxKeysLimit ELSE length

ListResult(prefix, length, token, res, err, list, nextToken, maxKeys, cs) ==
    [op |-> "List", fn |-> s.fn, prefix |-> prefix, length |-> length, token |-> token,
     res |-> res, err |-> err, list |-> list, nextToken |-> nextToken,
     maxKeys |-> maxKeys, calls |-> cs]

(* Storage.List; token is the variadic argument (<<>> or <<t>>); env is what
   the transport and the provider do (fails, short); the result carries the
   calls it issued *)
List(prefix, length, token, env) ==
    IF IsCDN(s)
    THEN ListResult(prefix, length, token, "error", "unsupported", <<>>, 0, -1, <<>>)
    ELSE IF ~s.client
    THEN ListResult(prefix, length, token, "panic", "nil client", <<>>, 0, -1, <<>>)
    ELSE LET maxKeys == ClampLength(length)
             out == ListObjectsV2(bucket, prefix, maxKeys,
                                  IF Len(token) > 0 THEN token[1] ELSE 0, env.short)
         IN  IF env.fails \/ out.err
             THEN ListResult(prefix, length, token, "error", "list", <<>>, 0, maxKeys,
                             <<"s3.ListObjectsV2">>)
             ELSE ListResult(prefix, length, token, "ok", "", out.keys, out.next, maxKeys,
                             <<"s3.ListObjectsV2">>)

Prefixes == {<<>>, <<1>>, <<2>>}

ListEnvs ==
    {[fails |-> FALSE, short |-> FALSE], [fails |-> FALSE, short |-> TRUE],
     [fails |-> TRUE, short |-> FALSE]}

(* one List call, with or without a token *)
ListOnce ==
    /\ s # NoStorage
    /\ \E prefix \in Prefixes, length \in {-1, 0, 1, MaxKeysLimit + 1},
          token \in {<<>>, <<1>>}, env \in ListEnvs :
        LET r == List(prefix, length, token, env)
        IN  Return(r, r.calls, bucket)

----------------------------------------------------------------------------
(* The operations on one handle *)

EpR2 == <<"a", Dot>> \o MarkR2
EpB2 == <<"s", "3", Dot, "e", "u", Dot>> \o MarkB2
EpBunny == <<"s", "g", Dot>> \o MarkBunny
EpEtc == <<"s", "3", Dot, "e", "u">>
EpMixed == MarkBunny \o <<Dot>> \o MarkR2

InitEndpoints == {EpR2, EpB2, EpBunny, EpEtc, EpMixed}

Init ==
    /\ \E ep \in InitEndpoints, fn \in {"NewStorage", "New"} :
        LET raw == Config(ep, <<>>)
            out == IF fn = "New" THEN New(raw, FALSE) ELSE NewStorage(raw, FALSE)
        IN  /\ fn = "New" => ep \in {EpEtc, EpBunny}
            /\ made = [fn |-> fn, raw |-> raw, out |-> out]
            /\ s = Handle(out)
    /\ bucket = <<Object(<<2, 1>>, 1)>>
    /\ last = [op |-> "none"]
    /\ calls = <<>>
    /\ iter = [state |-> "idle"]

Next ==
    \/ Upload
    \/ UploadOrigin
    \/ Info
    \/ ListOnce
    \/ Delete
    \/ Download
    \/ PresignGet
    \/ PresignPut

Spec == Init /\ [][Next]_vars

----------------------------------------------------------------------------
(* Pagination: a caller lists a stable bucket page by page *)

MaxObjects == 1001
MaxLength == 1500
MaxPages == 3

(* a bucket of nA keys in directory 1 and nB keys in directory 2 *)
BucketOf(nA, nB) ==
    [i \in 1..(nA + nB) |-> Object(IF i <= nA THEN <<1, i>> ELSE <<2, i - nA>>, 1)]

(* the requested lengths: any that is not positive, and the positive ones
   that page through a bucket of n objects in about MaxPages full pages *)
ListLengths(n) ==
    {-1, 0} \cup
    { l \in {1, 2, MaxKeysLimit \div 2, MaxKeysLimit - 1, MaxKeysLimit,
              MaxKeysLimit + 1, MaxLength} : l * MaxPages >= n }

InitList ==
    /\ \E ep \in {EpB2}, fn \in {"NewStorage", "New"} :
        LET raw == Config(ep, <<>>)
            out == IF fn = "New" THEN New(raw, FALSE) ELSE NewStorage(raw, FALSE)
        IN  /\ made = [fn |-> fn, raw |-> raw, out |-> out]
            /\ s = Handle(out)
    /\ \E nA \in {0, 2, MaxObjects}, nB \in {0, 1} : bucket = BucketOf(nA, nB)
    /\ last = [op |-> "none"]
    /\ calls = <<>>
    /\ iter = [state |-> "idle"]

Page(r, acc, longest) ==
    [state |-> IF r.res # "ok" THEN "failed" ELSE IF r.nextToken = 0 THEN "done" ELSE "more",
     prefix |-> r.prefix, length |-> r.length,
     acc |-> acc \o r.list, token |-> r.nextToken,
     longest |-> IF Len(r.list) > longest THEN Len(r.list) ELSE longest]

(* the first call, without a token *)
ListFirst ==
    /\ iter.state = "idle"
    /\ \E prefix \in Prefixes, length \in ListLengths(Len(bucket)), env \in ListEnvs :
        LET r == List(prefix, length, <<>>, env)
        IN  /\ iter' = Page(r, <<>>, 0)
            /\ last' = r
            /\ calls' = r.calls
            /\ UNCHANGED <<s, made, bucket>>

(* the caller re-invokes List with the non-empty token it was given *)
ListNext ==
    /\ iter.state = "more"
    /\ \E env \in ListEnvs :
        LET r == List(iter.prefix, iter.length, <<iter.token>>, env)
        IN  /\ iter' = Page(r, iter.acc, iter.longest)
            /\ last' = r
            /\ calls' = r.calls
            /\ UNCHANGED <<s, made, bucket>>

NextList == ListFirst \/ ListNext

SpecList == InitList /\ [][NextList]_vars

----------------------------------------------------------------------------
(* Claims about construction, checked under SpecNew *)

Constructed == made # NoCall /\ made.raw.Endpoint # <<>>

HasScheme(endpoint) ==
    HasPrefix(endpoint, SchemeHTTP) \/ HasPrefix(endpoint, SchemeHTTPS)

(* C8: a non-empty endpoint without http:// or https:// is stored as https://
   followed by the raw endpoint, with a single scheme prefix; an endpoint that
   has one is stored as given; normalizing the stored endpoint again changes
   nothing; and the handle returned carries that endpoint. *)
C8_EndpointNormalized ==
    Constructed =>
        LET raw == made.raw.Endpoint
            stored == made.out.config.Endpoint
        IN  /\ ~HasScheme(raw) =>
                /\ stored = SchemeHTTPS \o raw
                /\ ~HasScheme(SubSeq(stored, Len(SchemeHTTPS) + 1, Len(stored)))
            /\ HasScheme(raw) => stored = raw
            /\ NormalizeEndpoint(stored) = stored
            /\ s # NoStorage => s.config.Endpoint = stored

C8_Witness ==
    /\ Constructed
    /\ s # NoStorage
    /\ ~HasScheme(made.raw.Endpoint)
    /\ Contains(made.raw.Endpoint, <<Dot>>)
    /\ s.config.Endpoint = SchemeHTTPS \o made.raw.Endpoint

(* C9: a non-empty endpoint that contains the Backblaze marker and comes with
   no region is constructed without a crash, and the region is the second
   dot-separated segment of the normalized endpoint ("auto" when that segment
   is empty); a supplied region is kept; a region still unset becomes "auto". *)
C9_RegionResolved ==
    Constructed =>
        LET raw == made.raw
            out == made.out
            parts == Split(out.config.Endpoint, Dot)
        IN  /\ raw.Region # <<>> => out.config.Region = raw.Region
            /\ raw.Region = <<>> /\ Contains(raw.Endpoint, MarkB2) =>
                /\ out.status # "panic"
                /\ Len(parts) >= 2
                /\ out.config.Region = IF parts[2] = <<>> THEN RegionAuto ELSE parts[2]
            /\ raw.Region = <<>> /\ ~Contains(raw.Endpoint, MarkB2) =>
                out.config.Region = RegionAuto

----------------------------------------------------------------------------
(* Claims about the operations, checked under Spec *)

Issued(call) == \E i \in 1..Len(calls) : calls[i] = call

Uploaded == last.op = "Upload"

(* C1: an Upload whose source size resolved to zero returns an error and has
   issued no PUT, protocol or raw HTTP, on any provider variant and in both
   source modes. *)
C1_ZeroSizeRejected ==
    Uploaded /\ last.sized /\ last.size = 0 =>
        /\ last.res = "error"
        /\ ~Issued("s3.PutObject")
        /\ ~Issued("http.PUT")

C1_Witness ==
    /\ Uploaded /\ last.sized /\ last.size = 0
    /\ last.mode = "remote"
    /\ last.res = "error"
    /\ calls = <<"http.GET">>

(* the protocol PUT and the verification HEAD both completed, and the HEAD
   reported a size *)
PutAndHeadCompleted ==
    /\ Uploaded
    /\ Issued("s3.PutObject") /\ Issued("s3.HeadObject")
    /\ last.err \notin {"put", "head", "nil ContentLength"}

(* C2: on the standard-protocol path, for a source of size N > 0 whose PUT
   and verification HEAD complete, Upload succeeds when the backend holds N
   bytes for the key and fails with the integrity error when it holds any
   other size. *)
C2_SizeVerified ==
    PutAndHeadCompleted /\ last.size > 0 =>
        LET held == HeadObject(bucket, last.key)
        IN  /\ Len(held) = 1
            /\ held[1].size = last.size => last.res = "ok"
            /\ held[1].size # last.size =>
                last.res = "error" /\ last.err = "upload failed"

C2_Witness ==
    /\ PutAndHeadCompleted /\ last.size > 0
    /\ last.mode = "local"
    /\ HeadObject(bucket, last.key)[1].size > last.size
    /\ last.err = "upload failed"

(* the configuration is the CDN-direct variant: the CDN marker, and neither of
   the markers that are matched before it *)
CDNDirect ==
    /\ s # NoStorage
    /\ s.fn = "NewStorage"
    /\ Contains(s.config.Endpoint, MarkBunny)
    /\ ~Contains(s.config.Endpoint, MarkR2)
    /\ ~Contains(s.config.Endpoint, MarkB2)

(* C3: on a CDN-direct handle Info, List, PresignGet and PresignPut return the
   unsupported-operation error and issue no call at all. *)
C3_UnsupportedOnCDN ==
    CDNDirect /\ last.op \in {"Info", "List", "PresignGet", "PresignPut"} =>
        /\ last.res = "error"
        /\ last.err = "unsupported"
        /\ calls = <<>>

C3_Witness ==
    /\ CDNDirect
    /\ last.op = "List"
    /\ last.err = "unsupported"
    /\ Len(bucket) > 0

(* C4: a remote upload whose source answers with a status other than 200
   returns an error, and neither the PUT nor the verification HEAD is issued. *)
C4_OriginStatusStops ==
    Uploaded /\ last.mode = "remote" /\ last.status # 0 /\ last.status # StatusOK =>
        /\ last.res = "error"
        /\ ~Issued("s3.PutObject")
        /\ ~Issued("http.PUT")
        /\ ~Issued("s3.HeadObject")

C4_Witness ==
    /\ Uploaded /\ last.mode = "remote"
    /\ last.status = 204
    /\ last.err = "origin download failed"
    /\ calls = <<"http.GET">>

(* C6: an Upload returns success only after the stored size was queried and
   compared with the source size, on every provider variant. *)
C6_VerifiedBeforeSuccess ==
    Uploaded /\ last.res = "ok" =>
        /\ last.compared
        /\ last.stored = last.size

(* C7: when the verification fails, Upload has issued no delete and no write
   after its PUT, and the object it wrote is in the bucket with the size the
   backend reported. *)
C7_NoRollback ==
    Uploaded /\ last.err = "upload failed" =>
        /\ ~Issued("s3.DeleteObject")
        /\ ~Issued("http.DELETE")
        /\ Len(SelectSeq(calls, LAMBDA c : c \in {"s3.PutObject", "http.PUT"})) = 1
        /\ calls[Len(calls)] = "s3.HeadObject"
        /\ HeadObject(bucket, last.key) = <<Object(last.key, last.stored)>>

C7_Witness ==
    /\ Uploaded /\ last.err = "upload failed"
    /\ last.mode = "remote"
    /\ HeadObject(bucket, last.key) = <<Object(last.key, 0)>>
    /\ last.size > 0

(* C10: the source mode follows from the source string: a source that begins
   with http:// or https:// is fetched with a GET and no file is opened, any
   other source is opened as a file and no GET is sent. *)
C10_ModeFromScheme ==
    Uploaded /\ last.fn = "New" =>
        IF HasPrefix(last.source, SchemeHTTP) \/ HasPrefix(last.source, SchemeHTTPS)
        THEN last.mode = "remote" /\ ~Issued("os.Open")
        ELSE last.mode = "local" /\ ~Issued("http.GET")

(* C11: on every handle NewStorage returns, and after any operations on it,
   the client and the presigner are absent exactly when the configuration is
   the CDN-direct variant (first match of the R2, Backblaze and CDN markers),
   so no operation that takes the standard-protocol path finds the client
   missing, also for an endpoint with more than one marker. *)
C11_ClientAbsentIffCDN ==
    s # NoStorage /\ s.fn = "NewStorage" =>
        /\ ~s.client <=> CDNDirect
        /\ ~s.presignClient <=> CDNDirect
        /\ last.op # "none" => ~(last.res = "panic" /\ last.err = "nil client")

----------------------------------------------------------------------------
(* Claims about pagination, checked under SpecList *)

KeysUnder(prefix) ==
    LET under == SelectSeq(bucket, LAMBDA o : HasPrefix(o.key, prefix))
    IN  [i \in 1..Len(under) |-> under[i].key]

Paged == iter.state \in {"more", "done"}

(* the pages so far are the first keys under the prefix, in order, each once *)
PagesInOrder ==
    LET all == KeysUnder(iter.prefix)
    IN  /\ Len(iter.acc) <= Len(all)
        /\ iter.acc = SubSeq(all, 1, Len(iter.acc))
        /\ \A i \in 1..(Len(iter.acc) - 1) : KeyLess(iter.acc[i], iter.acc[i + 1])
        /\ iter.state = "done" => iter.acc = all

(* no page is longer than 1000 keys and the backend is asked for at most 1000 *)
PagesCapped ==
    /\ iter.longest <= MaxKeysLimit
    /\ last.maxKeys <= MaxKeysLimit

(* C5 as stated, for any requested length *)
C5_PaginationAnyLength == Paged => PagesCapped /\ PagesInOrder

(* C5: for a stable bucket and a requested length of at least 1, the pages
   from the first call to the call that returns the empty token hold at most
   1000 keys each, are pairwise disjoint, and concatenate to the keys under
   the prefix in the provider's order; for any requested length no page is
   longer than 1000 keys. *)
C5_Pagination ==
    Paged =>
        /\ PagesCapped
        /\ iter.length >= 1 => PagesInOrder

C5_Witness ==
    /\ iter.state = "done"
    /\ iter.length > MaxKeysLimit
    /\ iter.longest = MaxKeysLimit
    /\ Len(iter.acc) > MaxKeysLimit
    /\ iter.acc = KeysUnder(iter.prefix)

====
